---- MODULE Spec2Model ----
(***************************************************************************)
(* Model of code/data_collection/api_explorer.py: the response normalizer  *)
(* (extract_items and its helpers), the paginator (paginate, request_page),*)
(* the type inference engine (infer_type), the schema summarizer           *)
(* (summarize_dataframe) and the multi-endpoint driver (main).             *)
(*                                                                         *)
(* Python values are modelled as tagged records (JNull, JStr, JNum, JList, *)
(* JDict).  A Python string is a TLA+ string; where the code looks at its  *)
(* characters (regular expressions, strip, lexicographic order, substring  *)
(* search) the string is expanded by Chars into a tuple of one-character   *)
(* strings and the code's operation is computed on that tuple.             *)
(***************************************************************************)
EXTENDS Integers, Sequences, FiniteSets, TLC

(***************************************************************************)
(* Bounds of the model.  NUM_OF_ROWS and MAX_PAGES are the module-level    *)
(* settings of api_explorer.py (100 and 50 there), scaled down; NumApis is *)
(* the length of the APIS list (11 there); MaxRun bounds the length of the *)
(* columns handed to infer_type.                                           *)
(***************************************************************************)
NUM_OF_ROWS == 2
MAX_PAGES == 3
NumApis == 3
MaxRun == 10

(***************************************************************************)
(* The 0.9 threshold of infer_type as the fraction RatioNum / RatioDen.    *)
(***************************************************************************)
RatioNum == 9
RatioDen == 10

\* df.head(10) in main
HeadRows == 10

(***************************************************************************)
(* Python values                                                           *)
(***************************************************************************)
JNull == [t |-> "null"]
JStr(s) == [t |-> "str", s |-> s]
JNum(n) == [t |-> "num", n |-> n]
JList(l) == [t |-> "list", l |-> l]
JDict(d) == [t |-> "dict", d |-> d]
EmptyDict == JDict(<<>>)

\* bool(v) of Python: None, "", 0, [] and {} are falsy
Truthy(v) ==
  CASE v.t = "null" -> FALSE
    [] v.t = "str" -> v.s # ""
    [] v.t = "num" -> v.n # 0
    [] v.t = "list" -> Len(v.l) > 0
    [] v.t = "dict" -> DOMAIN v.d # {}

\* d.get(k) for a dict d
DictGet(d, k) == IF k \in DOMAIN d.d THEN d.d[k] ELSE JNull

\* (x or {})
OrEmptyDict(v) == IF Truthy(v) THEN v ELSE EmptyDict

(***************************************************************************)
(* Characters of the strings the model uses                                *)
(***************************************************************************)
Chars(s) ==
  CASE s = "" -> <<>>
    [] s = " " -> <<" ">>
    [] s = "  " -> <<" ", " ">>
    [] s = "1" -> <<"1">>
    [] s = "3" -> <<"3">>
    [] s = "-2" -> <<"-", "2">>
    [] s = "3.5" -> <<"3", ".", "5">>
    [] s = " 7 " -> <<" ", "7", " ">>
    [] s = "1." -> <<"1", ".">>
    [] s = "x" -> <<"x">>
    [] s = "abc" -> <<"a", "b", "c">>
    [] s = "20250101" -> <<"2", "0", "2", "5", "0", "1", "0", "1">>
    [] s = "20251231" -> <<"2", "0", "2", "5", "1", "2", "3", "1">>
    [] s = "202501" -> <<"2", "0", "2", "5", "0", "1">>
    [] s = "2025-01-01" -> <<"2", "0", "2", "5", "-", "0", "1", "-", "0", "1">>
    [] s = "2025-1-1" -> <<"2", "0", "2", "5", "-", "1", "-", "1">>
    [] s = "id" -> <<"i", "d">>
    [] s = "a" -> <<"a">>
    [] s = "b" -> <<"b">>
    [] s = "value" -> <<"v", "a", "l", "u", "e">>
    [] s = "application/json" ->
         <<"a", "p", "p", "l", "i", "c", "a", "t", "i", "o", "n", "/", "j", "s", "o", "n">>
    [] s = "application/JSON" ->
         <<"a", "p", "p", "l", "i", "c", "a", "t", "i", "o", "n", "/", "J", "S", "O", "N">>
    [] s = "text/xml" -> <<"t", "e", "x", "t", "/", "x", "m", "l">>

Digits == <<"0", "1", "2", "3", "4", "5", "6", "7", "8", "9">>
IsDigit(c) == \E i \in 1..10 : Digits[i] = c
DigitVal(c) == (CHOOSE i \in 1..10 : Digits[i] = c) - 1

\* code point of a character (ASCII)
Ord(c) ==
  CASE c = " " -> 32
    [] c = "-" -> 45
    [] c = "." -> 46
    [] c = "/" -> 47
    [] IsDigit(c) -> 48 + DigitVal(c)
    [] c = "J" -> 74
    [] c = "N" -> 78
    [] c = "O" -> 79
    [] c = "S" -> 83
    [] c = "a" -> 97
    [] c = "b" -> 98
    [] c = "c" -> 99
    [] c = "d" -> 100
    [] c = "e" -> 101
    [] c = "i" -> 105
    [] c = "j" -> 106
    [] c = "l" -> 108
    [] c = "m" -> 109
    [] c = "n" -> 110
    [] c = "o" -> 111
    [] c = "p" -> 112
    [] c = "s" -> 115
    [] c = "t" -> 116
    [] c = "u" -> 117
    [] c = "v" -> 118
    [] c = "x" -> 120

\* str.lower() on one character
LowerChar(c) ==
  CASE c = "J" -> "j"
    [] c = "S" -> "s"
    [] c = "O" -> "o"
    [] c = "N" -> "n"
    [] OTHER -> c

Lower(cs) == [i \in 1..Len(cs) |-> LowerChar(cs[i])]

\* sub in cs
Contains(sub, cs) ==
  \E i \in 0..(Len(cs) - Len(sub)) :
    \A j \in 1..Len(sub) : cs[i + j] = sub[j]

\* str.strip(): leading and trailing whitespace removed
Strip(cs) ==
  IF \A i \in 1..Len(cs) : cs[i] = " "
  THEN <<>>
  ELSE LET first == CHOOSE i \in 1..Len(cs) :
                      cs[i] # " " /\ \A j \in 1..(i - 1) : cs[j] = " "
           last == CHOOSE i \in 1..Len(cs) :
                     cs[i] # " " /\ \A j \in (i + 1)..Len(cs) : cs[j] = " "
       IN  SubSeq(cs, first, last)

\* lexicographic order of two strings by code point (a < b)
StrLess(a, b) ==
  \E i \in 1..(Len(b)) :
    /\ i <= Len(a) + 1
    /\ \A j \in 1..(i - 1) : a[j] = b[j]
    /\ (i = Len(a) + 1 \/ Ord(a[i]) < Ord(b[i]))

\* decimal digits of a natural number
RECURSIVE NatChars(_)
NatChars(n) ==
  IF n < 10 THEN <<Digits[n + 1]>> ELSE NatChars(n \div 10) \o <<Digits[(n % 10) + 1]>>

\* str(n) for an int n
IntChars(n) == IF n < 0 THEN <<"-">> \o NatChars(0 - n) ELSE NatChars(n)

\* value of a string of digits
RECURSIVE DigitsVal(_)
DigitsVal(cs) ==
  IF Len(cs) = 0 THEN 0
  ELSE 10 * DigitsVal(SubSeq(cs, 1, Len(cs) - 1)) + DigitVal(cs[Len(cs)])

\* \d+
AllDigits(cs) == Len(cs) > 0 /\ \A i \in 1..Len(cs) : IsDigit(cs[i])

(***************************************************************************)
(* Response Normalizer                                                     *)
(*                                                                         *)
(* A response body is one of                                               *)
(*   [fmt |-> "json", val |-> v]    the JSON text of the value v           *)
(*   [fmt |-> "xml", elems |-> es]  a well-formed XML document whose       *)
(*                                  .//item elements are es, each the      *)
(*                                  sequence of its <<tag, text>> children *)
(*   [fmt |-> "bad", first |-> c]   a text that is neither, starting       *)
(*                                  (after whitespace) with the character c*)
(***************************************************************************)
JsonBody(v) == [fmt |-> "json", val |-> v]
XmlBody(es) == [fmt |-> "xml", elems |-> es]
BadBody(c) == [fmt |-> "bad", first |-> c]

\* first character of the stripped body text
FirstChar(body) ==
  CASE body.fmt = "xml" -> "<"
    [] body.fmt = "bad" -> body.first
    [] body.val.t = "dict" -> "{"
    [] body.val.t = "list" -> "["
    [] body.val.t = "str" -> "\""
    [] body.val.t = "null" -> "n"
    [] body.val.t = "num" -> IntChars(body.val.n)[1]

is_json_response(body, content_type) ==
  \/ content_type # "" /\ Contains(<<"j", "s", "o", "n">>, Lower(Chars(content_type)))
  \/ FirstChar(body) \in {"{", "["}

\* the row built from the children of one <item>: row[child.tag] = child.text
XmlRow(children) ==
  [tag \in {children[i][1] : i \in 1..Len(children)} |->
     LET last == CHOOSE i \in 1..Len(children) :
                   /\ children[i][1] = tag
                   /\ \A j \in (i + 1)..Len(children) : children[j][1] # tag
     IN  children[last][2]]

NonEmptyRow(row) == DOMAIN row.d # {}

\* ET.fromstring raises ParseError on a text that is not XML
parse_xml_items(body) ==
  IF body.fmt # "xml"
  THEN [exc |-> "ParseError", items |-> <<>>]
  ELSE [exc |-> "none",
        items |-> SelectSeq([i \in 1..Len(body.elems) |-> JDict(XmlRow(body.elems[i]))],
                            NonEmptyRow)]

WrapValue(x) == IF x.t = "dict" THEN x ELSE JDict([value |-> x])

\* _normalize_items without its first test: None falls through to the scalar case
RECURSIVE NormalizeItemsNoneAsScalar(_)
NormalizeItemsNoneAsScalar(obj) ==
  CASE obj.t = "list" -> [i \in 1..Len(obj.l) |-> WrapValue(obj.l[i])]
    [] obj.t = "dict" ->
         IF "item" \in DOMAIN obj.d THEN NormalizeItemsNoneAsScalar(obj.d["item"])
         ELSE <<obj>>
    [] OTHER -> <<JDict([value |-> obj])>>

RECURSIVE _normalize_items(_)
_normalize_items(obj) ==
  CASE obj.t = "null" -> <<>>
    [] obj.t = "list" -> [i \in 1..Len(obj.l) |-> WrapValue(obj.l[i])]
    [] obj.t = "dict" ->
         IF "item" \in DOMAIN obj.d THEN _normalize_items(obj.d["item"]) ELSE <<obj>>
    [] OTHER -> <<JDict([value |-> obj])>>

\* the item collection of a parsed JSON value; exc is the exception raised
ItemsObj(data) ==
  IF data.t = "dict" /\ "response" \in DOMAIN data.d
  THEN LET resp == OrEmptyDict(DictGet(data, "response"))
       IN  IF resp.t # "dict"
           THEN [exc |-> "AttributeError", obj |-> JNull]
           ELSE LET body == OrEmptyDict(DictGet(resp, "body"))
                IN  IF body.t # "dict"
                    THEN [exc |-> "AttributeError", obj |-> JNull]
                    ELSE [exc |-> "none", obj |-> DictGet(body, "items")]
  ELSE IF data.t = "dict" /\ "items" \in DOMAIN data.d
       THEN [exc |-> "none", obj |-> DictGet(data, "items")]
       ELSE [exc |-> "none", obj |-> data]

\* returns (items, meta), or raises exc
extract_items(body, content_type) ==
  IF is_json_response(body, content_type)
  THEN IF body.fmt # "json"
       THEN [exc |-> "JSONDecodeError", items |-> <<>>, meta |-> EmptyDict]
       ELSE LET io == ItemsObj(body.val)
            IN  IF io.exc # "none"
                THEN [exc |-> io.exc, items |-> <<>>, meta |-> EmptyDict]
                ELSE [exc |-> "none", items |-> _normalize_items(io.obj), meta |-> body.val]
  ELSE LET x == parse_xml_items(body)
       IN  [exc |-> x.exc, items |-> x.items, meta |-> EmptyDict]

\* int(tc): [ok |-> FALSE] stands for the ValueError or TypeError it raises
PyInt(tc) ==
  CASE tc.t = "num" -> [ok |-> TRUE, n |-> tc.n]
    [] tc.t = "str" ->
         LET cs == Strip(Chars(tc.s))
             signed == Len(cs) > 0 /\ cs[1] \in {"-", "+"}
             ds == IF signed THEN SubSeq(cs, 2, Len(cs)) ELSE cs
         IN  IF AllDigits(ds)
             THEN [ok |-> TRUE,
                   n |-> IF signed /\ cs[1] = "-" THEN 0 - DigitsVal(ds) ELSE DigitsVal(ds)]
             ELSE [ok |-> FALSE, n |-> 0]
    [] OTHER -> [ok |-> FALSE, n |-> 0]

\* Optional[int]: [known |-> FALSE] is None
NoCount == [known |-> FALSE, n |-> 0]

\* _extract_total_count whose handler returns 0 instead of None
ExtractTotalCountZero(meta) ==
  LET zero == [known |-> TRUE, n |-> 0]
  IN  IF meta.t # "dict" THEN zero
      ELSE LET resp == OrEmptyDict(DictGet(meta, "response"))
           IN  IF resp.t # "dict" THEN zero
               ELSE LET body == OrEmptyDict(DictGet(resp, "body"))
                    IN  IF body.t # "dict" THEN zero
                        ELSE LET tc == DictGet(body, "totalCount")
                             IN  IF tc.t = "null" THEN NoCount
                                 ELSE IF PyInt(tc).ok
                                      THEN [known |-> TRUE, n |-> PyInt(tc).n]
                                      ELSE zero

_extract_total_count(meta) ==
  IF meta.t # "dict" THEN NoCount
  ELSE LET resp == OrEmptyDict(DictGet(meta, "response"))
       IN  IF resp.t # "dict" THEN NoCount
           ELSE LET body == OrEmptyDict(DictGet(resp, "body"))
                IN  IF body.t # "dict" THEN NoCount
                    ELSE LET tc == DictGet(body, "totalCount")
                         IN  IF tc.t = "null" THEN NoCount
                             ELSE IF PyInt(tc).ok
                                  THEN [known |-> TRUE, n |-> PyInt(tc).n]
                                  ELSE NoCount

(***************************************************************************)
(* An HTTP exchange: the GET raises (kind "transport"), or a response with *)
(* a status, a Content-Type header ("" when absent) and a body arrives.    *)
(***************************************************************************)
TransportFailure == [kind |-> "transport"]
Http(status, ctype, body) == [kind |-> "http", status |-> status, ctype |-> ctype, body |-> body]

\* requests.get, raise_for_status, extract_items
request_page(r) ==
  IF r.kind = "transport"
  THEN [exc |-> "ConnectionError", items |-> <<>>, meta |-> EmptyDict]
  ELSE IF r.status >= 400
       THEN [exc |-> "HTTPError", items |-> <<>>, meta |-> EmptyDict]
       ELSE extract_items(r.body, r.ctype)

(***************************************************************************)
(* Type Inference Engine                                                   *)
(*                                                                         *)
(* A series is a sequence of cells; a cell is JNull (None or NaN), JStr or *)
(* JNum (an int).                                                          *)
(***************************************************************************)
NotNull(v) == v.t # "null"

\* series.dropna()
dropna(series) == SelectSeq(series, NotNull)

(***************************************************************************)
(* The dtype pandas gives a column: float64 when its cells are numbers and *)
(* at least one is missing (None becomes NaN, the ints become floats),     *)
(* int64 when all are ints, object otherwise.                              *)
(***************************************************************************)
IsFloat64(series) ==
  /\ \A i \in 1..Len(series) : series[i].t \in {"num", "null"}
  /\ \E i \in 1..Len(series) : series[i].t = "null"
  /\ \E i \in 1..Len(series) : series[i].t = "num"

\* str(v) of one non-null cell: "5" for the int 5, "5.0" for the float 5.0
CellChars(v, float64) ==
  IF v.t = "num"
  THEN IF float64 THEN IntChars(v.n) \o <<".", "0">> ELSE IntChars(v.n)
  ELSE Chars(v.s)

\* series.dropna().astype(str)
StrValues(series) ==
  LET nonnull == dropna(series)
  IN  [i \in 1..Len(nonnull) |-> CellChars(nonnull[i], IsFloat64(series))]

MapStrip(strs) == [i \in 1..Len(strs) |-> Strip(strs[i])]
NotEmptyStr(cs) == cs # <<>>

\* s = series.dropna().astype(str).str.strip(); s = s[s != ""]
Cleaned(series) == SelectSeq(MapStrip(StrValues(series)), NotEmptyStr)

\* re.fullmatch(r"-?\d+", x)
is_integer(x) ==
  LET ds == IF Len(x) > 0 /\ x[1] = "-" THEN SubSeq(x, 2, Len(x)) ELSE x
  IN  AllDigits(ds)

\* re.fullmatch(r"-?\d+(\.\d+)?", x)
is_number(x) ==
  LET ds == IF Len(x) > 0 /\ x[1] = "-" THEN SubSeq(x, 2, Len(x)) ELSE x
  IN  \/ AllDigits(ds)
      \/ \E i \in 1..Len(ds) :
           /\ ds[i] = "."
           /\ AllDigits(SubSeq(ds, 1, i - 1))
           /\ AllDigits(SubSeq(ds, i + 1, Len(ds)))

\* \d{8}, \d{6} or \d{4}-\d{2}-\d{2}
is_date(x) ==
  \/ Len(x) = 8 /\ AllDigits(x)
  \/ Len(x) = 6 /\ AllDigits(x)
  \/ /\ Len(x) = 10
     /\ AllDigits(SubSeq(x, 1, 4)) /\ x[5] = "-"
     /\ AllDigits(SubSeq(x, 6, 7)) /\ x[8] = "-"
     /\ AllDigits(SubSeq(x, 9, 10))

\* s.map(P).sum(): the number of True in a series of flags
Count(flags) == Cardinality({i \in 1..Len(flags) : flags[i]})

(***************************************************************************)
(* s.map(P).astype("float").mean() >= 0.9 for a non-empty s of n values of *)
(* which k satisfy P: the mean is the double nearest k/n and 0.9 the double*)
(* nearest 9/10, so the comparison agrees with 10 * k >= 9 * n for every n *)
(* far below 2^52.                                                         *)
(***************************************************************************)
\* the threshold test with > in place of >=
RatioAbove(k, n) == RatioDen * k > RatioNum * n

RatioAtLeast(k, n) == RatioDen * k >= RatioNum * n

infer_type(series) ==
  LET s == Cleaned(series)
      n == Len(s)
  IN  IF n = 0 THEN "unknown"
      ELSE IF RatioAtLeast(Count([i \in 1..n |-> is_date(s[i])]), n) THEN "date"
      ELSE IF RatioAtLeast(Count([i \in 1..n |-> is_number(s[i])]), n)
           THEN IF RatioAtLeast(Count([i \in 1..n |-> is_integer(s[i])]), n) THEN "int" ELSE "float"
           ELSE "string"

(***************************************************************************)
(* Schema Summarizer                                                       *)
(*                                                                         *)
(* A DataFrame is [n |-> number of rows, columns |-> set of column names,  *)
(* col |-> the series of each column].  The order of the columns (first    *)
(* seen) only decides the column order of the data file and is not         *)
(* modelled.                                                               *)
(***************************************************************************)
\* pd.DataFrame(items): one row per record, a column per key, NaN where absent
DataFrame(items) ==
  LET cols == UNION {DOMAIN items[i].d : i \in 1..Len(items)}
  IN  [n |-> Len(items),
       columns |-> cols,
       col |-> [c \in cols |->
                 [i \in 1..Len(items) |->
                    IF c \in DOMAIN items[i].d THEN items[i].d[c] ELSE JNull]]]

\* df.head(k)
head(df, k) ==
  LET m == IF df.n < k THEN df.n ELSE k
  IN  [n |-> m, columns |-> df.columns,
       col |-> [c \in df.columns |-> SubSeq(df.col[c], 1, m)]]

\* values of min and max in a summary row
PNone == [k |-> "none"]
PFloat(m, e) == [k |-> "float", m |-> m, e |-> e]
PInt(n) == [k |-> "int", n |-> n]
PStr(cs) == [k |-> "str", cs |-> cs]

RECURSIVE Pow10(_)
Pow10(e) == IF e = 0 THEN 1 ELSE 10 * Pow10(e - 1)

(***************************************************************************)
(* pd.to_numeric(..., errors="coerce") on one cell: the number m / 10^e,   *)
(* or NaN (ok = FALSE).  The parser skips surrounding whitespace and       *)
(* accepts a decimal literal, also with nothing after the point.           *)
(***************************************************************************)
to_numeric(v) ==
  IF v.t = "num" THEN [ok |-> TRUE, m |-> v.n, e |-> 0]
  ELSE LET x == Strip(Chars(v.s))
           neg == Len(x) > 0 /\ x[1] = "-"
           ds == IF neg THEN SubSeq(x, 2, Len(x)) ELSE x
           sgn == IF neg THEN 0 - 1 ELSE 1
       IN  IF AllDigits(ds) THEN [ok |-> TRUE, m |-> sgn * DigitsVal(ds), e |-> 0]
           ELSE IF \E i \in 1..Len(ds) :
                     /\ ds[i] = "."
                     /\ AllDigits(SubSeq(ds, 1, i - 1))
                     /\ \A j \in (i + 1)..Len(ds) : IsDigit(ds[j])
                THEN LET i == CHOOSE i \in 1..Len(ds) : ds[i] = "."
                         whole == SubSeq(ds, 1, i - 1)
                         frac == SubSeq(ds, i + 1, Len(ds))
                     IN  [ok |-> TRUE, m |-> sgn * DigitsVal(whole \o frac), e |-> Len(frac)]
                ELSE [ok |-> FALSE, m |-> 0, e |-> 0]

NumOk(x) == x.ok
NumLeq(a, b) == a.m * Pow10(b.e) <= b.m * Pow10(a.e)

\* float(min) and float(max) of a non-empty sequence of numbers
NumMin(nums) ==
  LET i == CHOOSE i \in 1..Len(nums) : \A j \in 1..Len(nums) : NumLeq(nums[i], nums[j])
  IN  PFloat(nums[i].m, nums[i].e)
NumMax(nums) ==
  LET i == CHOOSE i \in 1..Len(nums) : \A j \in 1..Len(nums) : NumLeq(nums[j], nums[i])
  IN  PFloat(nums[i].m, nums[i].e)

StrLeq(a, b) == a = b \/ StrLess(a, b)
StrMin(strs) ==
  strs[CHOOSE i \in 1..Len(strs) : \A j \in 1..Len(strs) : StrLeq(strs[i], strs[j])]
StrMax(strs) ==
  strs[CHOOSE i \in 1..Len(strs) : \A j \in 1..Len(strs) : StrLeq(strs[j], strs[i])]

LenMin(strs) ==
  Len(strs[CHOOSE i \in 1..Len(strs) : \A j \in 1..Len(strs) : Len(strs[i]) <= Len(strs[j])])
LenMax(strs) ==
  Len(strs[CHOOSE i \in 1..Len(strs) : \A j \in 1..Len(strs) : Len(strs[j]) <= Len(strs[i])])

\* (minv, maxv) of one column, lines 249-263
MinMax(inferred, ser) ==
  IF inferred \in {"int", "float"}
  THEN LET nonnull == dropna(ser)
           nums == SelectSeq([i \in 1..Len(nonnull) |-> to_numeric(nonnull[i])], NumOk)
       IN  IF Len(nums) > 0 THEN <<NumMin(nums), NumMax(nums)>> ELSE <<PNone, PNone>>
  ELSE IF inferred = "date"
  THEN LET vals == SelectSeq(MapStrip(StrValues(ser)), NotEmptyStr)
       IN  IF Len(vals) > 0 THEN <<PStr(StrMin(vals)), PStr(StrMax(vals))>>
           ELSE <<PNone, PNone>>
  ELSE LET vals == StrValues(ser)
       IN  IF Len(vals) > 0 THEN <<PInt(LenMin(vals)), PInt(LenMax(vals))>>
           ELSE <<PNone, PNone>>

(***************************************************************************)
(* round(1.0 - len(nonnull) / len(df), 4) in units of 1/10000; 1.0 - 0.0   *)
(* when the frame has no rows.                                             *)
(***************************************************************************)
MissingRate(k, n) ==
  IF n = 0 THEN 10000 ELSE (2 * 10000 * (n - k) + n) \div (2 * n)

SummaryRow(df, c) ==
  LET ser == df.col[c]
      inferred == infer_type(ser)
      nonnull == dropna(ser)
      mm == MinMax(inferred, ser)
  IN  [column |-> c,
       inferred_type |-> inferred,
       missing_rate |-> MissingRate(Len(nonnull), df.n),
       nunique |-> Cardinality({StrValues(ser)[i] : i \in 1..Len(nonnull)}),
       min |-> mm[1],
       max |-> mm[2]]

\* the names of S in ascending order
RECURSIVE SortNames(_)
SortNames(S) ==
  IF S = {} THEN <<>>
  ELSE LET m == CHOOSE c \in S : \A d \in S \ {c} : StrLess(Chars(c), Chars(d))
       IN  <<m>> \o SortNames(S \ {m})

(***************************************************************************)
(* pd.DataFrame(summary_rows).sort_values("column"): a frame built from an *)
(* empty list of rows has no columns, and sort_values raises KeyError for  *)
(* a column the frame does not have.                                       *)
(***************************************************************************)
sort_values_column(rows) ==
  IF rows = {} THEN [exc |-> "KeyError", rows |-> <<>>]
  ELSE LET names == SortNames({r.column : r \in rows})
       IN  [exc |-> "none",
            rows |-> [i \in 1..Len(names) |-> CHOOSE r \in rows : r.column = names[i]]]

summarize_dataframe(df) ==
  sort_values_column({SummaryRow(df, c) : c \in df.columns})

(***************************************************************************)
(* Endpoints                                                               *)
(***************************************************************************)
\* the "name" of the entries of APIS, in list order
ApiNames ==
  <<"perDay_price", "ecoFriendly_price", "recent_price", "perYearMonth_price",
    "perRegion_price", "priceSequel_info", "risesAndFalls_info", "periodRetail_price",
    "shipmentSequel_info", "periodWholesale_price", "listingException_dealings">>

APIS == SubSeq(ApiNames, 1, NumApis)

\* the i-th item an endpoint serves
Item(i) == JDict([id |-> JNum(i)])

\* the n items of page p of an endpoint that numbers its items page by page
PageItems(p, n) == [k \in 1..n |-> Item((p - 1) * (NUM_OF_ROWS + 1) + k)]

\* {"response": {"body": {"items": {"item": [...]}}}}, the envelope of the aT APIs
Envelope(items) ==
  JDict([response |-> JDict([body |-> JDict([items |-> JDict([item |-> JList(items)])])])])

\* the same envelope declaring body.totalCount = tc
EnvelopeTotal(items, tc) ==
  JDict([response |->
    JDict([body |-> JDict([items |-> JDict([item |-> JList(items)]), totalCount |-> tc])])])

Ok(body) == Http(200, "application/json", body)

XmlTexts == <<"1", "3", "x", "abc">>
\* an XML document of n <item> elements, each with one <id> child
XmlPage(n) == Http(200, "text/xml", XmlBody([k \in 1..n |-> <<<<"id", JStr(XmlTexts[k])>>>>]))

(***************************************************************************)
(* Responses by what they carry.  Each set is defined by the shape of the  *)
(* response, not by what the code makes of it.                             *)
(***************************************************************************)
\* bodies that are not text of the format the code goes on to parse them as
\* (the JSON text null, sent without a Content-Type, is parsed as XML)
UnparseableResponses ==
  {Http(200, "application/json", BadBody("{")),
   Http(200, "", BadBody("<")),
   Http(200, "application/JSON", XmlBody(<<>>)),
   Http(200, "", JsonBody(JNull))}

\* page fetches that fail: transport error, non-2xx status, unparseable body
FailingResponses ==
  {TransportFailure,
   Http(500, "application/json", JsonBody(EmptyDict)),
   Http(404, "text/xml", XmlBody(<<>>))}
  \cup UnparseableResponses

\* valid JSON that names no item collection: no body.items, or items null
NoItemsResponses ==
  {Ok(JsonBody(JDict([response |-> JDict([body |-> EmptyDict])]))),
   Ok(JsonBody(JDict([response |-> JDict([header |-> JStr("x")])]))),
   Ok(JsonBody(JDict([response |-> JDict([body |-> JDict([items |-> JNull])])]))),
   Ok(JsonBody(JDict([response |-> JNull]))),
   Ok(JsonBody(JDict([items |-> JNull]))),
   Ok(JsonBody(JNull))}

\* valid JSON whose envelope is not of the expected types
IllTypedResponses ==
  {Ok(JsonBody(JDict([response |-> JStr("abc")]))),
   Ok(JsonBody(JDict([response |-> JDict([body |-> JList(<<JNum(1)>>)])])))}

\* pages of n records that carry no usable total count
UnknownTotalPages(p, n) ==
  {Ok(JsonBody(Envelope(PageItems(p, n)))),
   Ok(JsonBody(EnvelopeTotal(PageItems(p, n), JNull))),
   Ok(JsonBody(EnvelopeTotal(PageItems(p, n), JStr("abc")))),
   Ok(JsonBody(EnvelopeTotal(PageItems(p, n), JList(<<>>)))),
   Http(200, "", JsonBody(JList(PageItems(p, n)))),
   XmlPage(n)}

\* pages of n records that declare a total count of t, as a number or as text
DeclaredTotalPages(p, n, t) ==
  {Ok(JsonBody(EnvelopeTotal(PageItems(p, n), JNum(t))))}

\* a full page that declares its total count as the text "3"
TextTotalPage(p) == Ok(JsonBody(EnvelopeTotal(PageItems(p, NUM_OF_ROWS), JStr("3"))))

\* what an endpoint of any behaviour may answer to the request for page p
ArbitraryResponses(p) ==
  FailingResponses \cup NoItemsResponses \cup IllTypedResponses
  \cup UnknownTotalPages(p, NUM_OF_ROWS)
  \cup UnknownTotalPages(p, 0)
  \cup {Ok(JsonBody(Envelope(PageItems(p, n)))) : n \in 1..(NUM_OF_ROWS + 1)}
  \cup DeclaredTotalPages(p, NUM_OF_ROWS, NUM_OF_ROWS * MAX_PAGES)
  \cup {TextTotalPage(p)}
  \cup {Ok(JsonBody(JDict([items |-> JList(PageItems(p, 1))]))),
        Ok(JsonBody(Item(p))),
        Ok(JsonBody(EmptyDict)),
        Ok(JsonBody(JList(<<JStr("x"), JNull>>)))}

\* an endpoint that either fails or serves a short, a full or an empty page
FlakyResponses(p) ==
  {TransportFailure,
   Http(500, "application/json", JsonBody(EmptyDict)),
   Http(200, "application/json", BadBody("{"))}
  \cup {Ok(JsonBody(Envelope(PageItems(p, n)))) : n \in {0, 1, NUM_OF_ROWS}}

\* the endpoint of the spec's tests: T items in pages of NUM_OF_ROWS, totalCount = T
TotalItems(p, total) ==
  LET lo == (p - 1) * NUM_OF_ROWS
      n == IF total <= lo THEN 0
           ELSE IF total - lo < NUM_OF_ROWS THEN total - lo ELSE NUM_OF_ROWS
  IN  [k \in 1..n |-> Item(lo + k)]

\* the endpoint of the spec's tests that always returns a full page
FullItems(p) == [k \in 1..NUM_OF_ROWS |-> Item((p - 1) * NUM_OF_ROWS + k)]

ServerResponses(srv, p) ==
  CASE srv.kind = "arbitrary" -> ArbitraryResponses(p)
    [] srv.kind = "flaky" -> FlakyResponses(p)
    [] srv.kind = "total" -> {Ok(JsonBody(EnvelopeTotal(TotalItems(p, srv.total), JNum(srv.total))))}
    [] srv.kind = "full" -> {Ok(JsonBody(Envelope(FullItems(p))))}

(***************************************************************************)
(* The run of main                                                         *)
(*                                                                         *)
(*   pc          where main is: "for" (head of the loop over the           *)
(*               endpoints), "while" (head of the loop of paginate),       *)
(*               "await" (a page request is in flight), "returned"         *)
(*               (paginate has returned), "done", "crashed" (an exception  *)
(*               left main)                                                *)
(*   apis        the endpoint list main iterates, apiIdx the position in it*)
(*   server      how the endpoints behave                                  *)
(*   page, all_items   the locals of paginate                              *)
(*   requests    every page request issued so far                          *)
(*   log         the responses of the current paginate call, in order,     *)
(*               with the records request_page returned and how the        *)
(*               iteration ended                                           *)
(*   files       the files written under output/                           *)
(*   all_summaries, printed   the list main builds and what it printed     *)
(*   exc         the exception that ended the run, "none" otherwise        *)
(*   call        one call of a pure function: its name, argument and, once *)
(*               done, its result                                          *)
(***************************************************************************)
VARIABLES pc, apis, apiIdx, server, page, all_items, requests, log, files,
          all_summaries, printed, exc, call

vars == <<pc, apis, apiIdx, server, page, all_items, requests, log, files,
          all_summaries, printed, exc, call>>

runVars == <<pc, apis, apiIdx, server, page, all_items, requests, log, files,
             all_summaries, printed, exc>>

NoCall == [fn |-> "main"]

\* the loop test off by one
WhileCondOffByOne(p) == p <= MAX_PAGES + 1

\* while page <= MAX_PAGES
WhileCond(p) == p <= MAX_PAGES

\* the page put in front of the accumulated records
ExtendFront(all, items) == items \o all

\* all_items.extend(items)
Extend(all, items) == all \o items

\* the iteration without the declared-total break
IterationEndNoTotal(all, items, meta) ==
  IF Len(items) = 0 THEN "empty"
  ELSE IF Len(items) < NUM_OF_ROWS THEN "short" ELSE "continue"

(***************************************************************************)
(* How one iteration of paginate ends once request_page has returned items *)
(* and meta: "empty", "total" and "short" are the three breaks, "continue" *)
(* is page += 1.  all is all_items after the extend.                       *)
(***************************************************************************)
IterationEnd(all, items, meta) ==
  IF Len(items) = 0 THEN "empty"
  ELSE IF _extract_total_count(meta).known /\ Len(all) >= _extract_total_count(meta).n
       THEN "total"
       ELSE IF Len(items) < NUM_OF_ROWS THEN "short" ELSE "continue"

RunInit(srv, endpoints) ==
  /\ pc = "for"
  /\ apis = endpoints
  /\ apiIdx = 1
  /\ server = srv
  /\ page = 1
  /\ all_items = <<>>
  /\ requests = <<>>
  /\ log = <<>>
  /\ files = <<>>
  /\ all_summaries = <<>>
  /\ printed = <<>>
  /\ exc = "none"
  /\ call = NoCall

\* for api in APIS: ... print("=== Fetching ==="); paginate is entered
NextApi ==
  /\ pc = "for"
  /\ apiIdx <= Len(apis)
  /\ printed' = Append(printed, <<"Fetching", apis[apiIdx]>>)
  /\ all_items' = <<>>
  /\ page' = 1
  /\ log' = <<>>
  /\ pc' = "while"
  /\ UNCHANGED <<apis, apiIdx, server, requests, files, all_summaries, exc, call>>

\* the loop test holds: the request for the page is issued
SendRequest ==
  /\ pc = "while"
  /\ WhileCond(page)
  /\ requests' = Append(requests,
                        [api |-> apis[apiIdx], pageNo |-> page, numOfRows |-> NUM_OF_ROWS])
  /\ pc' = "await"
  /\ UNCHANGED <<apis, apiIdx, server, page, all_items, log, files, all_summaries,
                 printed, exc, call>>

\* the loop test fails: return all_items
ReturnAtCap ==
  /\ pc = "while"
  /\ ~WhileCond(page)
  /\ pc' = "returned"
  /\ UNCHANGED <<apis, apiIdx, server, page, all_items, requests, log, files,
                 all_summaries, printed, exc, call>>

\* the answer to the request in flight arrives: the rest of the iteration
ReceivePage ==
  /\ pc = "await"
  /\ \E r \in ServerResponses(server, page) :
     \E res \in {request_page(r)} :
     \E all \in {Extend(all_items, res.items)} :
     \E end \in {IF res.exc # "none" THEN "raised"
                  ELSE IterationEnd(all, res.items, res.meta)} :
           /\ log' = Append(log, [pageNo |-> page, resp |-> r, items |-> res.items,
                                  end |-> end])
           /\ exc' = res.exc
           /\ all_items' = IF end \in {"raised", "empty"} THEN all_items ELSE all
           /\ page' = IF end = "continue" THEN page + 1 ELSE page
           /\ pc' = CASE end = "raised" -> "crashed"
                      [] end = "continue" -> "while"
                      [] OTHER -> "returned"
  /\ UNCHANGED <<apis, apiIdx, server, requests, files, all_summaries, printed, call>>

\* main, lines 291-309: what is done with the items paginate returned
ProcessItems ==
  /\ pc = "returned"
  /\ LET name == apis[apiIdx]
         rows == <<"Rows fetched", Len(all_items)>>
         df == DataFrame(all_items)
         summary == summarize_dataframe(df)
         data == (<<name, "data">> :> df)
         rest == (<<name, "schema_summary">> :> summary.rows)
                 @@ (<<name, "sample">> :> head(df, HeadRows))
     IN  IF Len(all_items) = 0
         THEN /\ printed' = printed \o <<rows, <<"No data.">>>>
              /\ apiIdx' = apiIdx + 1
              /\ pc' = "for"
              /\ UNCHANGED <<files, all_summaries, exc>>
         ELSE IF summary.exc # "none"
         THEN /\ printed' = Append(printed, rows)
              /\ files' = data @@ files
              /\ exc' = summary.exc
              /\ pc' = "crashed"
              /\ UNCHANGED <<apiIdx, all_summaries>>
         ELSE /\ printed' = printed \o <<rows, <<"summary", name>>>>
              /\ files' = data @@ rest @@ files
              /\ all_summaries' = Append(all_summaries,
                                         [api_name |-> name, rows |-> summary.rows])
              /\ apiIdx' = apiIdx + 1
              /\ pc' = "for"
              /\ UNCHANGED exc
  /\ UNCHANGED <<apis, server, page, all_items, requests, log, call>>

\* the loop over the endpoints is over, lines 311-314
Finish ==
  /\ pc = "for"
  /\ apiIdx > Len(apis)
  /\ IF Len(all_summaries) > 0
     THEN /\ files' = (<<"_all", "schema_summary">> :> all_summaries) @@ files
          /\ printed' = Append(printed, <<"Saved: output/_all_schema_summary.csv">>)
     ELSE UNCHANGED <<files, printed>>
  /\ pc' = "done"
  /\ UNCHANGED <<apis, apiIdx, server, page, all_items, requests, log, all_summaries,
                 exc, call>>

Next == NextApi \/ SendRequest \/ ReturnAtCap \/ ReceivePage \/ ProcessItems \/ Finish

\* main over the whole endpoint list, against endpoints that may fail
Init == RunInit([kind |-> "flaky"], APIS)
Spec == Init /\ [][Next]_vars

\* main over one endpoint
InitPaginate ==
  \E srv \in {[kind |-> "arbitrary"], [kind |-> "full"]}
             \cup {[kind |-> "total", total |-> t] : t \in 1..((MAX_PAGES + 1) * NUM_OF_ROWS)} :
    RunInit(srv, <<APIS[1]>>)
SpecPaginate == InitPaginate /\ [][Next]_vars

(***************************************************************************)
(* The call of paginate alone, from its entry to its return or its raise,  *)
(* with every step that can be taken eventually taken: the GET of          *)
(* request_page has a timeout, the sleep between two pages is finite and   *)
(* nothing else in the loop blocks.                                        *)
(***************************************************************************)
NextPaginate == NextApi \/ SendRequest \/ ReturnAtCap \/ ReceivePage
FairPaginate == InitPaginate /\ [][NextPaginate]_vars /\ WF_vars(NextPaginate)

(***************************************************************************)
(* Single calls of the pure functions                                      *)
(***************************************************************************)
\* no run of main: only call changes
Idle ==
  /\ pc = "idle"
  /\ apis = <<>>
  /\ apiIdx = 1
  /\ server = [kind |-> "none"]
  /\ page = 1
  /\ all_items = <<>>
  /\ requests = <<>>
  /\ log = <<>>
  /\ files = <<>>
  /\ all_summaries = <<>>
  /\ printed = <<>>
  /\ exc = "none"

Pending(fn, arg) == [fn |-> fn, arg |-> arg, done |-> FALSE, ret |-> JNull]

\* item collections as the endpoints wrap them
ItemCollections ==
  {JList(PageItems(1, n)) : n \in 0..(NUM_OF_ROWS + 1)}
  \cup {JDict([item |-> JList(PageItems(1, n))]) : n \in 0..(NUM_OF_ROWS + 1)}
  \cup {JDict([item |-> Item(1)]), Item(1), JList(<<JStr("x"), JNum(1)>>), JNull, JStr("x")}

\* the JSON values of the three shapes, and mixtures of them
JsonShapes ==
  UNION {{JDict([response |-> JDict([body |-> JDict([items |-> c])])]),
          JDict([response |-> JDict([body |-> JDict([items |-> c])]),
                 items |-> JList(<<Item(9)>>)]),
          JDict([items |-> c]),
          JDict([response |-> JDict([header |-> JStr("x")]), items |-> c]),
          JDict([response |-> JNull, items |-> c]),
          c} : c \in ItemCollections}

ExtractInputs ==
  {Http(200, ct, JsonBody(v)) : ct \in {"application/json", ""}, v \in JsonShapes}
  \cup ArbitraryResponses(1)

InitExtract ==
  /\ Idle
  /\ \E r \in ExtractInputs : call = Pending("request_page", r)

\* items, meta = request_page(url, params)
CallRequestPage ==
  /\ call.fn = "request_page"
  /\ ~call.done
  /\ call' = [call EXCEPT !.done = TRUE, !.ret = request_page(call.arg)]
  /\ UNCHANGED runVars

\* total_count = _extract_total_count(meta), on the meta request_page returned
CallExtractTotalCount ==
  /\ call.fn = "request_page"
  /\ call.done
  /\ call.ret.exc = "none"
  /\ call' = [fn |-> "_extract_total_count", arg |-> call.ret.meta, done |-> TRUE,
              ret |-> _extract_total_count(call.ret.meta)]
  /\ UNCHANGED runVars

NextExtract == CallRequestPage \/ CallExtractTotalCount
SpecExtract == InitExtract /\ [][NextExtract]_vars

\* the cells of the columns handed to infer_type
InferCells ==
  {JNull}
  \cup {JStr(x) : x \in {"", " ", "1", "-2", "3.5", " 7 ", "1.", "x", "20250101",
                          "202501", "2025-01-01", "2025-1-1"}}

Run(v, n) == [i \in 1..n |-> v]

\* columns of up to MaxRun cells: a run of one cell followed by a run of another
InitInfer ==
  /\ Idle
  /\ \E a \in 0..MaxRun : \E b \in 0..(MaxRun - a) :
       \E v \in InferCells : \E w \in InferCells :
         call = Pending("infer_type", Run(v, a) \o Run(w, b))

CallInferType ==
  /\ call.fn = "infer_type"
  /\ ~call.done
  /\ call' = [call EXCEPT !.done = TRUE, !.ret = infer_type(call.arg)]
  /\ UNCHANGED runVars

NextInfer == CallInferType
SpecInfer == InitInfer /\ [][NextInfer]_vars

\* the Datasets handed to summarize_dataframe: up to MaxRecords records over
\* the fields a and b
MaxRecords == 2
SummaryCells ==
  {JNull} \cup {JStr(x) : x \in {"", "  ", "1", "3.5", "20250101", "x"}}
SummaryRecords ==
  {EmptyDict}
  \cup {JDict([a |-> x]) : x \in SummaryCells}
  \cup {JDict([b |-> x]) : x \in SummaryCells}
  \cup {JDict([a |-> x, b |-> y]) : x \in SummaryCells, y \in SummaryCells}

InitSummarize ==
  /\ Idle
  /\ \E n \in 0..MaxRecords : \E items \in [1..n -> SummaryRecords] :
       call = Pending("summarize_dataframe", DataFrame(items))

CallSummarize ==
  /\ call.fn = "summarize_dataframe"
  /\ ~call.done
  /\ call' = [call EXCEPT !.done = TRUE, !.ret = summarize_dataframe(call.arg)]
  /\ UNCHANGED runVars

NextSummarize == CallSummarize
SpecSummarize == InitSummarize /\ [][NextSummarize]_vars

(***************************************************************************)
(* Properties                                                              *)
(***************************************************************************)
RECURSIVE Concat(_)
Concat(seqs) == IF Len(seqs) = 0 THEN <<>> ELSE Concat(SubSeq(seqs, 1, Len(seqs) - 1)) \o seqs[Len(seqs)]

IsPrefix(a, b) == Len(a) <= Len(b) /\ SubSeq(b, 1, Len(a)) = a

CeilDiv(a, b) == (a + b - 1) \div b

\* the records of the first k pages of log, in page order
Received(k) == Concat([i \in 1..k |-> log[i].items])

\* paginate has returned to main
PaginateReturned == pc \in {"returned", "done"} \/ (pc = "for" /\ apiIdx > 1)

(***************************************************************************)
(* C1.  When a run over the endpoint list has ended, every endpoint of the *)
(* list has been paginated (at least its first page was requested), also   *)
(* the endpoints that come after one whose page fetch failed.              *)
(***************************************************************************)
C1_LaterEndpointsCollected ==
  pc \in {"done", "crashed"} =>
    \A i \in 1..Len(apis) : \E j \in 1..Len(requests) : requests[j].api = apis[i]

(***************************************************************************)
(* C2.  paginate never issues more than MAX_PAGES requests and always      *)
(* ends (returns or raises), whatever the endpoint answers; against the    *)
(* endpoint that always returns a full page it returns after exactly       *)
(* MAX_PAGES requests.                                                     *)
(***************************************************************************)
C2_HardCap ==
  /\ [](Len(requests) <= MAX_PAGES)
  /\ <>(pc \in {"returned", "crashed"})
  /\ [](server.kind = "full" /\ PaginateReturned => Len(requests) = MAX_PAGES)

C2_Witness ==
  /\ server.kind = "full"
  /\ pc = "returned"
  /\ Len(requests) = MAX_PAGES
  /\ Len(all_items) = MAX_PAGES * NUM_OF_ROWS

(***************************************************************************)
(* C3.  Against the endpoint that serves T items in pages of NUM_OF_ROWS   *)
(* and declares totalCount = T, with ceil(T / NUM_OF_ROWS) <= MAX_PAGES,   *)
(* paginate never issues more than ceil(T / NUM_OF_ROWS) requests, does    *)
(* not raise, and returns after exactly that many requests with exactly    *)
(* the T items, in order.                                                  *)
(***************************************************************************)
C3_DeclaredTotal ==
  (server.kind = "total" /\ CeilDiv(server.total, NUM_OF_ROWS) <= MAX_PAGES) =>
    /\ Len(requests) <= CeilDiv(server.total, NUM_OF_ROWS)
    /\ pc # "crashed"
    /\ PaginateReturned =>
         /\ Len(requests) = CeilDiv(server.total, NUM_OF_ROWS)
         /\ all_items = [i \in 1..server.total |-> Item(i)]

\* T an exact multiple of the page size: two full pages, no third request
C3_Witness ==
  /\ server.kind = "total"
  /\ server.total = 2 * NUM_OF_ROWS
  /\ pc = "returned"
  /\ Len(requests) = 2
  /\ Len(all_items) = 2 * NUM_OF_ROWS

(***************************************************************************)
(* C4.  In one paginate run the k-th request carries pageNo = k; a request *)
(* is in flight only at "await" and every earlier page has then been       *)
(* received, normalized and found to continue; all_items is at every       *)
(* moment the concatenation, in page order, of the records of the pages    *)
(* received so far, and a step only ever appends to it.                    *)
(***************************************************************************)
C4_InOrderAppendOnly ==
  /\ [](/\ \A k \in 1..Len(requests) : requests[k].pageNo = k
        /\ Len(requests) = Len(log) + (IF pc = "await" THEN 1 ELSE 0)
        /\ \A k \in 1..(Len(requests) - 1) : log[k].end = "continue"
        /\ \A k \in 1..Len(log) : log[k].pageNo = k
        /\ all_items = Received(Len(log)))
  /\ [][IsPrefix(all_items, all_items')]_vars

\* the third request is in flight and two pages are accumulated
C4_Witness ==
  /\ pc = "await"
  /\ Len(requests) = 3
  /\ Len(log) = 2
  /\ Len(log[1].items) = NUM_OF_ROWS + 1
  /\ all_items = log[1].items \o log[2].items

LogicalItems(c) == IF c.t = "list" THEN c.l ELSE c.d["item"].l

RecordCollections ==
  {JList(PageItems(1, n)) : n \in 0..(NUM_OF_ROWS + 1)}
  \cup {JDict([item |-> JList(PageItems(1, n))]) : n \in 0..(NUM_OF_ROWS + 1)}

\* the JSON values in which c is the first collection present, in probing order
Placements(c) ==
  {JDict([response |-> JDict([body |-> JDict([items |-> c])])]),
   JDict([response |-> JDict([body |-> JDict([items |-> c])]), items |-> JList(<<Item(9)>>)]),
   JDict([items |-> c]),
   JDict([response |-> JDict([header |-> JStr("x")]), items |-> c]),
   c}

C6_ProbeInOrder ==
  (call.fn = "request_page" /\ call.done) =>
    \A c \in RecordCollections :
      call.arg \in {Ok(JsonBody(v)) : v \in Placements(c)} =>
        /\ call.ret.exc = "none"
        /\ call.ret.items = LogicalItems(c)

(***************************************************************************)
(* C7.  summarize_dataframe on the frame of zero records returns an empty  *)
(* summary and does not raise.                                             *)
(***************************************************************************)
C7_EmptyDataset ==
  (call.fn = "summarize_dataframe" /\ call.done /\ call.arg.n = 0) =>
    /\ call.ret.exc = "none"
    /\ call.ret.rows = <<>>

(***************************************************************************)
(* C8.  infer_type on a column, by the shapes of its cells: "unknown"      *)
(* exactly when no cell is left after cleaning; else "date" when at least  *)
(* 9 in 10 of the cleaned cells are date-shaped; else, when at least 9 in  *)
(* 10 are number-shaped, "int" if at least 9 in 10 are integer-only and    *)
(* "float" if not; else "string".  The shapes are given cell by cell.      *)
(***************************************************************************)
DroppedCells == {JNull, JStr(""), JStr(" ")}
DateCells == {JStr("20250101"), JStr("202501"), JStr("2025-01-01")}
IntegerCells == {JStr("1"), JStr("-2"), JStr(" 7 "), JStr("20250101"), JStr("202501")}
NumberCells == IntegerCells \cup {JStr("3.5")}

HowMany(series, S) == Cardinality({i \in 1..Len(series) : series[i] \in S})

ExpectedType(series) ==
  LET n == Len(series) - HowMany(series, DroppedCells)
  IN  IF n = 0 THEN "unknown"
      ELSE IF 10 * HowMany(series, DateCells) >= 9 * n THEN "date"
      ELSE IF 10 * HowMany(series, NumberCells) >= 9 * n
           THEN IF 10 * HowMany(series, IntegerCells) >= 9 * n THEN "int" ELSE "float"
           ELSE "string"

C8_InferType ==
  (call.fn = "infer_type" /\ call.done) => call.ret = ExpectedType(call.arg)

\* nine 8-digit values and one stray value: exactly 0.9, and a date, not an int
C8_Witness ==
  /\ call.fn = "infer_type"
  /\ call.done
  /\ call.arg = Run(JStr("20250101"), 9) \o Run(JStr("x"), 1)
  /\ call.ret = "date"

(***************************************************************************)
(* C9.  In every row of a summary, min and max are both None when the      *)
(* inferred type is "unknown" or the column has no non-null value.         *)
(***************************************************************************)
C9_UnknownHasNoRange ==
  (call.fn = "summarize_dataframe" /\ call.done /\ call.ret.exc = "none") =>
    \A i \in 1..Len(call.ret.rows) :
      LET row == call.ret.rows[i]
          ser == call.arg.col[row.column]
      IN  (row.inferred_type = "unknown" \/ \A j \in 1..Len(ser) : ser[j] = JNull) =>
            (row.min = PNone /\ row.max = PNone)

(***************************************************************************)
(* C10.  A page that carries no usable total count (totalCount absent,     *)
(* null, not a number, the body a bare list, the body XML) is not an       *)
(* error: the iteration ends as an empty page if it holds no record, as a  *)
(* short page if it holds fewer than NUM_OF_ROWS, and otherwise continues; *)
(* and once such a page of at least NUM_OF_ROWS records has been received  *)
(* as page k < MAX_PAGES, the request for page k + 1 is issued.            *)
(***************************************************************************)
PageSizes == 0..(NUM_OF_ROWS + 1)

UnknownTotalEntry(e, n) == e.resp \in UnknownTotalPages(e.pageNo, n)

C10_UnknownTotalContinues ==
  /\ [](\A k \in 1..Len(log) : \A n \in PageSizes :
          UnknownTotalEntry(log[k], n) =>
            /\ Len(log[k].items) = n
            /\ log[k].end = IF n = 0 THEN "empty"
                            ELSE IF n < NUM_OF_ROWS THEN "short" ELSE "continue")
  /\ \A k \in 1..(MAX_PAGES - 1) :
       [](((Len(log) >= k) /\ (\E n \in PageSizes : n >= NUM_OF_ROWS /\ UnknownTotalEntry(log[k], n)))
            => <>(Len(requests) > k /\ requests[k + 1].pageNo = k + 1))

\* a full page whose totalCount is not a number was followed by the next request
C10_Witness ==
  /\ Len(log) >= 1
  /\ log[1].resp = Ok(JsonBody(EnvelopeTotal(PageItems(1, NUM_OF_ROWS), JStr("abc"))))
  /\ Len(requests) = 2
  /\ requests[2].pageNo = 2

====
